---- MODULE Spec2Model ----
(***************************************************************************)
(* Model of the Aether ingestion-and-aggregation engine                    *)
(* (src/aether/sensor_manager.py, sensor.py, persistance.py,               *)
(* data_cleaning.py, main.py).                                             *)
(*                                                                         *)
(* Python None is the empty sequence and a present value x is <<x>>.       *)
(* An ISO-8601 timestamp string is a sequence of decimal digits of fixed   *)
(* width; an instant is a natural number of clock ticks.  A dict is a      *)
(* function whose DOMAIN is its key set.                                   *)
(***************************************************************************)
EXTENDS Integers, Sequences, FiniteSets, TLC

\* ---------------------------------------------------------------- bounds
MaxClock == 1
MaxCalls == 2
MaxSeedLen == 0
MaxBootLen == 2
MaxIngestThreads == 2
MaxRawRows == 2
MaxHistRows == 2
MaxQueryIngests == 1

\* ------------------------------------------------------ program constants
PM25_MAX == 500
NO2_MAX == 400

\* ------------------------------------------------------------- universes
\* keys of the whitelist loaded by load_sensors, in registry order
RegistryOrder == <<"s1", "s2">>
Registered == {RegistryOrder[i] : i \in 1..Len(RegistryOrder)}
SensorIds == Registered \cup {"u1"}

PollutantKeys == <<"no2", "pm25">>
KeySet == {PollutantKeys[i] : i \in 1..Len(PollutantKeys)}
Values == {-10, 20, 501}
\* every dict over the pollutant keys, the empty dict included
ReadingsInputs == UNION {[ks -> Values] : ks \in SUBSET KeySet}

None == <<>>
Some(x) == <<x>>

\* ------------------------------------------------------------ timestamps
\* datetime.isoformat(): fixed-width decimal fields
isoformat(t) == <<t \div 10, t % 10>>

IsIsoString(s) == Len(s) = 2 /\ \A i \in 1..2 : s[i] \in 0..9

\* datetime.fromisoformat(); raises ValueError unless IsIsoString(s)
fromisoformat(s) == 10 * s[1] + s[2]

\* strings that fromisoformat rejects
MalformedTimestamps == {<<7>>, <<1, 12>>}

\* ----------------------------------------------------------- sensor.py
SensorReading(sensor_id, readings, timestamp) ==
    [sensor_id |-> sensor_id, readings |-> readings, timestamp |-> timestamp]

to_dict(reading) ==
    [sensor_id |-> reading.sensor_id,
     readings  |-> reading.readings,
     timestamp |-> isoformat(reading.timestamp)]

from_dict(data) ==
    SensorReading(data.sensor_id, data.readings, fromisoformat(data.timestamp))

SensorInfo == [last_reading |-> None, last_update |-> None]

\* the registry as load_sensors builds it: no live reading yet
load_sensors == [sid \in Registered |-> SensorInfo]

\* ------------------------------------------------------ data_cleaning.py
AnyNegative(readings) == \E k \in DOMAIN readings : readings[k] < 0

\* mutant: the rules stop at the first error
validate_readings_short_circuit(readings) ==
    IF DOMAIN readings = {}
    THEN [ok |-> FALSE, errors |-> <<"Readings dictionary is empty.">>]
    ELSE IF AnyNegative(readings)
    THEN [ok |-> FALSE, errors |-> <<"Negative pollutant values are not allowed.">>]
    ELSE IF "pm25" \in DOMAIN readings /\ readings["pm25"] > PM25_MAX
    THEN [ok |-> FALSE, errors |-> <<"PM2.5 value too large (>500).">>]
    ELSE IF "no2" \in DOMAIN readings /\ readings["no2"] > NO2_MAX
    THEN [ok |-> FALSE, errors |-> <<"NO2 value too large (>400).">>]
    ELSE [ok |-> TRUE, errors |-> <<>>]

validate_readings(readings) ==
    IF DOMAIN readings = {}
    THEN [ok |-> FALSE, errors |-> <<"Readings dictionary is empty.">>]
    ELSE LET e1 == IF AnyNegative(readings)
                   THEN <<"Negative pollutant values are not allowed.">>
                   ELSE <<>>
             e2 == IF "pm25" \in DOMAIN readings /\ readings["pm25"] > PM25_MAX
                   THEN <<"PM2.5 value too large (>500).">>
                   ELSE <<>>
             e3 == IF "no2" \in DOMAIN readings /\ readings["no2"] > NO2_MAX
                   THEN <<"NO2 value too large (>400).">>
                   ELSE <<>>
             errors == e1 \o e2 \o e3
         IN [ok |-> Len(errors) = 0, errors |-> errors]

\* --------------------------------------------------------- persistance.py
\* JSON object text of a dict: its key/value pairs
RECURSIVE EncodeDict(_, _)
EncodeDict(d, i) ==
    IF i > Len(PollutantKeys) THEN <<>>
    ELSE (IF PollutantKeys[i] \in DOMAIN d
          THEN << <<PollutantKeys[i], d[PollutantKeys[i]]>> >>
          ELSE <<>>) \o EncodeDict(d, i + 1)

DecodeDict(pairs) ==
    [k \in {pairs[i][1] : i \in 1..Len(pairs)} |->
        pairs[CHOOSE i \in 1..Len(pairs) : pairs[i][1] = k][2]]

\* json.dumps of the list of records
json_dumps(readings) ==
    [i \in 1..Len(readings) |->
        <<readings[i].sensor_id, EncodeDict(readings[i].readings, 1),
          readings[i].timestamp>>]

\* json.loads of a text json.dumps produced
json_loads(text) ==
    [i \in 1..Len(text) |->
        [sensor_id |-> text[i][1],
         readings  |-> DecodeDict(text[i][2]),
         timestamp |-> text[i][3]]]

\* the realtime log file: absent, valid JSON, or present but not valid JSON
AbsentFile == [state |-> "absent", text |-> <<>>]
CorruptFile == [state |-> "corrupt", text |-> <<>>]
JsonFile(text) == [state |-> "ok", text |-> text]

load_realtime_storage(f) ==
    IF f.state = "absent" THEN <<>>
    ELSE IF f.state = "corrupt" THEN <<>>
    ELSE json_loads(f.text)

\* how one write_text call can end: it succeeds, it fails before the file
\* is opened (file untouched), or it fails after the file was truncated
WriteOutcomes == {"ok", "fail_untouched", "fail_truncated"}

\* mutant: the new record is appended to the file instead of a full rewrite
save_realtime_storage_append(f, readings, wr) ==
    IF wr = "ok"
    THEN [raised |-> FALSE,
          file |-> JsonFile(f.text \o json_dumps(<<readings[Len(readings)]>>))]
    ELSE IF wr = "fail_untouched" THEN [raised |-> TRUE, file |-> f]
    ELSE [raised |-> TRUE, file |-> CorruptFile]

save_realtime_storage(f, readings, wr) ==
    IF wr = "ok" THEN [raised |-> FALSE, file |-> JsonFile(json_dumps(readings))]
    ELSE IF wr = "fail_untouched" THEN [raised |-> TRUE, file |-> f]
    ELSE [raised |-> TRUE, file |-> CorruptFile]

\* ------------------------------------------------- SensorManager.__init__
Max(S) == CHOOSE m \in S : \A x \in S : x <= m

\* mutant: a record with an equal timestamp replaces the current one
hydrate_record_last_wins(snsrs, rec) ==
    LET sid == rec.sensor_id IN
    IF sid \notin DOMAIN snsrs THEN snsrs
    ELSE IF ~IsIsoString(rec.timestamp) THEN snsrs
    ELSE LET ts == fromisoformat(rec.timestamp)
             current_last == snsrs[sid].last_update
         IN IF current_last = None \/ ts >= current_last[1]
            THEN [snsrs EXCEPT ![sid] = [last_reading |-> Some(from_dict(rec)),
                                         last_update  |-> Some(ts)]]
            ELSE snsrs

\* one iteration of the hydration loop
hydrate_record(snsrs, rec) ==
    LET sid == rec.sensor_id IN
    IF sid \notin DOMAIN snsrs THEN snsrs
    ELSE IF ~IsIsoString(rec.timestamp) THEN snsrs
    ELSE LET ts == fromisoformat(rec.timestamp)
             current_last == snsrs[sid].last_update
         IN IF current_last = None \/ ts > current_last[1]
            THEN [snsrs EXCEPT ![sid] = [last_reading |-> Some(from_dict(rec)),
                                         last_update  |-> Some(ts)]]
            ELSE snsrs

RECURSIVE hydrate(_, _, _)
hydrate(snsrs, log, i) ==
    IF i > Len(log) THEN snsrs
    ELSE hydrate(hydrate_record(snsrs, log[i]), log, i + 1)

\* the constructor: the manager it builds, or raised when it throws
SensorManager(snsrs, f) ==
    LET log == load_realtime_storage(f) IN
    IF Len(log) = 0
    THEN [raised |-> FALSE, sensors |-> snsrs, realtime |-> log,
          total_readings |-> 0, last_update |-> None]
    ELSE IF \E i \in 1..Len(log) : ~IsIsoString(log[i].timestamp)
    THEN [raised |-> TRUE, sensors |-> snsrs, realtime |-> log,
          total_readings |-> Len(log), last_update |-> None]
    ELSE [raised |-> FALSE,
          sensors |-> hydrate(snsrs, log, 1),
          realtime |-> log,
          total_readings |-> Len(log),
          last_update |->
              Some(Max({fromisoformat(log[i].timestamp) : i \in 1..Len(log)}))]

\* ---------------------------------------------------- SensorManager.ingest
Raise(self, kind, errors) ==
    [self |-> self, outcome |-> kind, errors |-> errors, ret |-> None]

Return(self, reading) ==
    [self |-> self, outcome |-> "ok", errors |-> <<>>, ret |-> Some(reading)]

\* mutant: every sensor of the registry gets the new reading
update_sensor_state_reset_others(snsrs, sensor_id, reading, now) ==
    [sid \in DOMAIN snsrs |->
        IF sid = sensor_id
        THEN [last_reading |-> Some(reading), last_update |-> Some(now)]
        ELSE SensorInfo]

\* "Update sensor state"
update_sensor_state(snsrs, sensor_id, reading, now) ==
    [snsrs EXCEPT ![sensor_id] = [last_reading |-> Some(reading),
                                  last_update  |-> Some(now)]]

\* mutant: the counter is not incremented
update_counters_no_increment(self, now) ==
    [self EXCEPT !.last_update = Some(now)]

\* the process-wide counter and timestamp
update_counters(self, now) ==
    [self EXCEPT !.total_readings = @ + 1, !.last_update = Some(now)]

\* mutant: the payload is validated before the sensor is authorized
ingest_validate_first(self, sensor_id, readings, now, wr) ==
    LET v == validate_readings(readings) IN
    IF ~v.ok
    THEN Raise(self, "InvalidReading", v.errors)
    ELSE IF sensor_id \notin DOMAIN self.sensors
    THEN Raise(self, "Unauthorized", <<>>)
    ELSE LET reading == SensorReading(sensor_id, readings, now)
             record == to_dict(reading)
             s1 == [self EXCEPT !.realtime = Append(@, record)]
             sv == save_realtime_storage(s1.file, s1.realtime, wr)
             s2 == [s1 EXCEPT !.file = sv.file]
         IN IF sv.raised
            THEN Raise(s2, "StorageWriteFailure", <<>>)
            ELSE LET s3 == [s2 EXCEPT !.sensors =
                               update_sensor_state(@, sensor_id, reading, now)]
                 IN Return(update_counters(s3, now), reading)

\* mutant: the record is stored before the payload is validated
ingest_store_first(self, sensor_id, readings, now, wr) ==
    IF sensor_id \notin DOMAIN self.sensors
    THEN Raise(self, "Unauthorized", <<>>)
    ELSE LET reading == SensorReading(sensor_id, readings, now)
             record == to_dict(reading)
             s1 == [self EXCEPT !.realtime = Append(@, record)]
             v == validate_readings(readings)
         IN IF ~v.ok
            THEN Raise(s1, "InvalidReading", v.errors)
            ELSE LET sv == save_realtime_storage(s1.file, s1.realtime, wr)
                     s2 == [s1 EXCEPT !.file = sv.file]
                 IN IF sv.raised
                    THEN Raise(s2, "StorageWriteFailure", <<>>)
                    ELSE LET s3 == [s2 EXCEPT !.sensors =
                                 update_sensor_state(@, sensor_id, reading, now)]
                         IN Return(update_counters(s3, now), reading)

ingest(self, sensor_id, readings, now, wr) ==
    IF sensor_id \notin DOMAIN self.sensors
    THEN Raise(self, "Unauthorized", <<>>)
    ELSE LET v == validate_readings(readings) IN
    IF ~v.ok
    THEN Raise(self, "InvalidReading", v.errors)
    ELSE LET reading == SensorReading(sensor_id, readings, now)
             record == to_dict(reading)
             s1 == [self EXCEPT !.realtime = Append(@, record)]
             sv == save_realtime_storage(s1.file, s1.realtime, wr)
             s2 == [s1 EXCEPT !.file = sv.file]
         IN IF sv.raised
            THEN Raise(s2, "StorageWriteFailure", <<>>)
            ELSE LET s3 == [s2 EXCEPT !.sensors =
                               update_sensor_state(@, sensor_id, reading, now)]
                 IN Return(update_counters(s3, now), reading)

\* SensorManager.get_status: the active-sensor count
active_sensors(snsrs) ==
    Cardinality({sid \in DOMAIN snsrs : snsrs[sid].last_reading # None})

\* ------------------------------------------------------ historical table
\* A table is its set of pollutant columns and its rows in order.  A cell
\* holding NaN / None is the empty sequence, a value v is <<v>>.
PollutantColumns == <<"pm25", "pm10", "no2", "o3">>
ColumnSet == {PollutantColumns[i] : i \in 1..Len(PollutantColumns)}

\* a historical file with the header line only
EmptyTable == [columns |-> ColumnSet, rows |-> <<>>]

\* ------------------------------------------------------------------ state
VARIABLES
    pc,              \* "boot" before the constructor ran, then "ready" or "failed"
    sensors,         \* SensorManager._sensors
    realtime,        \* SensorManager._realtime
    file,            \* the realtime log file on disk
    total_readings,  \* SensorManager._total_readings
    last_update,     \* SensorManager._last_update
    clock,           \* the latest value datetime.now returned
    call,            \* the last completed call: arguments and result
    calls,           \* number of completed calls
    threads,         \* the request threads running ingest: position and locals
    status_req,      \* the request thread running get_status
    historical_df    \* SensorManager._historical_df, the table read at startup

vars == <<pc, sensors, realtime, file, total_readings, last_update, clock,
          call, calls, threads, status_req, historical_df>>

Self == [sensors |-> sensors, realtime |-> realtime, file |-> file,
         total_readings |-> total_readings, last_update |-> last_update]

NoCall == [op |-> "none", sensor_id |-> "", readings |-> <<>>, wr |-> "none",
           outcome |-> "", errors |-> <<>>, ret |-> None]

Threads == 1..MaxIngestThreads

IdleThread == [pc |-> "idle", sensor_id |-> "", readings |-> <<>>, now |-> 0,
               text |-> <<>>, tmp |-> 0, outcome |-> ""]

IdleStatus == [pc |-> "idle", active_sensors |-> 0, total_readings |-> 0,
               last_update |-> None]

NoRequests == threads = [t \in Threads |-> IdleThread] /\ status_req = IdleStatus

\* ------------------------------------------------------- startup (lifespan)
RECURSIVE SeqsUpTo(_, _)
SeqsUpTo(S, n) ==
    IF n = 0 THEN {<<>>}
    ELSE LET shorter == SeqsUpTo(S, n - 1)
         IN shorter \cup {Append(s, x) : s \in {t \in shorter : Len(t) = n - 1}, x \in S}

\* readings found in restored logs
BootReadings == {[pm25 |-> 20], [no2 |-> 20]}

BootRecords ==
    [sensor_id : SensorIds, readings : BootReadings,
     timestamp : {isoformat(t) : t \in 0..MaxClock} \cup MalformedTimestamps]

BootFiles ==
    {AbsentFile, CorruptFile}
        \cup {JsonFile(json_dumps(log)) : log \in SeqsUpTo(BootRecords, MaxBootLen)}

BootInit ==
    /\ pc = "boot"
    /\ file \in BootFiles
    /\ sensors = load_sensors
    /\ realtime = <<>>
    /\ total_readings = 0
    /\ last_update = None
    /\ clock = 0
    /\ call = NoCall
    /\ calls = 0
    /\ NoRequests
    /\ historical_df = EmptyTable

\* lifespan: construct the SensorManager from the whitelist and the file
Startup ==
    /\ pc = "boot"
    /\ LET m == SensorManager(load_sensors, file) IN
         IF m.raised
         THEN /\ pc' = "failed"
              /\ UNCHANGED <<sensors, realtime, total_readings, last_update>>
         ELSE /\ pc' = "ready"
              /\ sensors' = m.sensors
              /\ realtime' = m.realtime
              /\ total_readings' = m.total_readings
              /\ last_update' = m.last_update
    /\ UNCHANGED <<file, clock, call, calls, threads, status_req, historical_df>>

BootNext == Startup

SpecBoot == BootInit /\ [][BootNext]_vars

\* ------------------------------------------------- sequential ingest calls
\* payloads of the ingest requests: the empty one, valid ones, and ones that
\* break one or several validation rules
IngestReadings ==
    {<<>>, [pm25 |-> 20], [no2 |-> 20], [pm25 |-> -10],
     [no2 |-> 501, pm25 |-> 501], [no2 |-> 501, pm25 |-> -10]}

ValidReadings == {r \in IngestReadings : validate_readings(r).ok}

SeedRecords ==
    [sensor_id : SensorIds, readings : ValidReadings,
     timestamp : {isoformat(t) : t \in 0..MaxClock}]

\* files a previous run of the service can have left behind
SeedFiles ==
    {AbsentFile, CorruptFile}
        \cup {JsonFile(json_dumps(log)) : log \in SeqsUpTo(SeedRecords, MaxSeedLen)}

Init ==
    /\ pc = "ready"
    /\ file \in SeedFiles
    /\ LET m == SensorManager(load_sensors, file) IN
         /\ sensors = m.sensors
         /\ realtime = m.realtime
         /\ total_readings = m.total_readings
         /\ last_update = m.last_update
         /\ clock = IF m.last_update = None THEN 0 ELSE m.last_update[1]
    /\ call = NoCall
    /\ calls = 0
    /\ NoRequests
    /\ historical_df = EmptyTable

\* POST /ingest, one request at a time
Ingest ==
    /\ pc = "ready"
    /\ calls < MaxCalls
    /\ \E sensor_id \in SensorIds, readings \in IngestReadings,
          now \in clock..MaxClock, wr \in WriteOutcomes :
         LET res == ingest(Self, sensor_id, readings, now, wr) IN
           /\ sensors' = res.self.sensors
           /\ realtime' = res.self.realtime
           /\ file' = res.self.file
           /\ total_readings' = res.self.total_readings
           /\ last_update' = res.self.last_update
           \* datetime.now is read only once the payload is accepted
           /\ clock' = IF res.outcome \in {"Unauthorized", "InvalidReading"}
                       THEN clock ELSE now
           /\ call' = [op |-> "ingest", sensor_id |-> sensor_id,
                       readings |-> readings,
                       wr |-> IF res.outcome \in {"Unauthorized", "InvalidReading"}
                              THEN "none" ELSE wr,
                       outcome |-> res.outcome, errors |-> res.errors,
                       ret |-> res.ret]
    /\ calls' = calls + 1
    /\ UNCHANGED <<historical_df, pc, threads, status_req>>

Next == Ingest

Spec == Init /\ [][Next]_vars

\* ------------------------------------ concurrent requests (thread pool)
\* Each request runs SensorManager.ingest or get_status in a thread of its
\* own; the code takes no lock, so the threads interleave between statements.

\* payloads of the concurrent requests
ConcReadings == {[pm25 |-> 20], [no2 |-> 20], [pm25 |-> -10]}

ConcInit ==
    /\ pc = "ready"
    /\ file = AbsentFile
    /\ LET m == SensorManager(load_sensors, file) IN
         /\ sensors = m.sensors
         /\ realtime = m.realtime
         /\ total_readings = m.total_readings
         /\ last_update = m.last_update
    /\ clock = 0
    /\ call = NoCall
    /\ calls = 0
    /\ NoRequests
    /\ historical_df = EmptyTable

Shared == <<sensors, realtime, file, total_readings, last_update>>

\* authorization, validation, datetime.now, SensorReading(...)
ThreadCheck(t) ==
    /\ threads[t].pc = "idle"
    /\ \E sensor_id \in SensorIds, readings \in ConcReadings, now \in clock..MaxClock :
         IF sensor_id \notin DOMAIN sensors
         THEN /\ threads' = [threads EXCEPT ![t] =
                    [@ EXCEPT !.pc = "done", !.sensor_id = sensor_id,
                              !.readings = readings, !.outcome = "Unauthorized"]]
              /\ clock' = clock
         ELSE IF ~validate_readings(readings).ok
         THEN /\ threads' = [threads EXCEPT ![t] =
                    [@ EXCEPT !.pc = "done", !.sensor_id = sensor_id,
                              !.readings = readings, !.outcome = "InvalidReading"]]
              /\ clock' = clock
         ELSE /\ threads' = [threads EXCEPT ![t] =
                    [@ EXCEPT !.pc = "append", !.sensor_id = sensor_id,
                              !.readings = readings, !.now = now]]
              /\ clock' = now
    /\ UNCHANGED <<historical_df, pc, call, calls, status_req>>
    /\ UNCHANGED Shared

\* self._realtime.append(record)
ThreadAppend(t) ==
    /\ threads[t].pc = "append"
    /\ realtime' = Append(realtime,
           to_dict(SensorReading(threads[t].sensor_id, threads[t].readings,
                                 threads[t].now)))
    /\ threads' = [threads EXCEPT ![t].pc = "dumps"]
    /\ UNCHANGED <<historical_df, pc, sensors, file, total_readings, last_update, clock,
                   call, calls, status_req>>

\* json.dumps(readings, ...) inside save_realtime_storage
ThreadDumps(t) ==
    /\ threads[t].pc = "dumps"
    /\ threads' = [threads EXCEPT ![t].pc = "write", ![t].text = json_dumps(realtime)]
    /\ UNCHANGED <<historical_df, pc, clock, call, calls, status_req>>
    /\ UNCHANGED Shared

\* p.write_text(...) inside save_realtime_storage
ThreadWrite(t) ==
    /\ threads[t].pc = "write"
    /\ \E wr \in WriteOutcomes :
         IF wr = "ok"
         THEN /\ file' = JsonFile(threads[t].text)
              /\ threads' = [threads EXCEPT ![t].pc = "last_reading"]
         ELSE /\ file' = IF wr = "fail_untouched" THEN file ELSE CorruptFile
              /\ threads' = [threads EXCEPT ![t].pc = "done",
                                            ![t].outcome = "StorageWriteFailure"]
    /\ UNCHANGED <<historical_df, pc, sensors, realtime, total_readings, last_update, clock,
                   call, calls, status_req>>

\* info.last_reading = reading
ThreadSetLastReading(t) ==
    /\ threads[t].pc = "last_reading"
    /\ sensors' = [sensors EXCEPT ![threads[t].sensor_id].last_reading =
           Some(SensorReading(threads[t].sensor_id, threads[t].readings,
                              threads[t].now))]
    /\ threads' = [threads EXCEPT ![t].pc = "last_update"]
    /\ UNCHANGED <<historical_df, pc, realtime, file, total_readings, last_update, clock,
                   call, calls, status_req>>

\* info.last_update = now
ThreadSetLastUpdate(t) ==
    /\ threads[t].pc = "last_update"
    /\ sensors' = [sensors EXCEPT ![threads[t].sensor_id].last_update =
           Some(threads[t].now)]
    /\ threads' = [threads EXCEPT ![t].pc = "load_total"]
    /\ UNCHANGED <<historical_df, pc, realtime, file, total_readings, last_update, clock,
                   call, calls, status_req>>

\* self._total_readings += 1: the load
ThreadLoadTotal(t) ==
    /\ threads[t].pc = "load_total"
    /\ threads' = [threads EXCEPT ![t].pc = "store_total", ![t].tmp = total_readings]
    /\ UNCHANGED <<historical_df, pc, clock, call, calls, status_req>>
    /\ UNCHANGED Shared

\* self._total_readings += 1: the store
ThreadStoreTotal(t) ==
    /\ threads[t].pc = "store_total"
    /\ total_readings' = threads[t].tmp + 1
    /\ threads' = [threads EXCEPT ![t].pc = "global_update"]
    /\ UNCHANGED <<historical_df, pc, sensors, realtime, file, last_update, clock,
                   call, calls, status_req>>

\* self._last_update = now; return reading
ThreadReturn(t) ==
    /\ threads[t].pc = "global_update"
    /\ last_update' = Some(threads[t].now)
    /\ threads' = [threads EXCEPT ![t].pc = "done", ![t].outcome = "ok"]
    /\ UNCHANGED <<historical_df, pc, sensors, realtime, file, total_readings, clock,
                   call, calls, status_req>>

\* get_status: active_sensors = sum(...)
StatusCountActive ==
    /\ status_req.pc = "idle"
    /\ status_req' = [status_req EXCEPT !.pc = "read_total",
                                        !.active_sensors = active_sensors(sensors)]
    /\ UNCHANGED <<historical_df, pc, clock, call, calls, threads>>
    /\ UNCHANGED Shared

\* get_status: "total_readings": self._total_readings
StatusReadTotal ==
    /\ status_req.pc = "read_total"
    /\ status_req' = [status_req EXCEPT !.pc = "read_last",
                                        !.total_readings = total_readings]
    /\ UNCHANGED <<historical_df, pc, clock, call, calls, threads>>
    /\ UNCHANGED Shared

\* get_status: "last_update": self._last_update; return
StatusReadLast ==
    /\ status_req.pc = "read_last"
    /\ status_req' = [status_req EXCEPT !.pc = "done", !.last_update = last_update]
    /\ UNCHANGED <<historical_df, pc, clock, call, calls, threads>>
    /\ UNCHANGED Shared

ConcNext ==
    \/ \E t \in Threads :
         \/ ThreadCheck(t)
         \/ ThreadAppend(t)
         \/ ThreadDumps(t)
         \/ ThreadWrite(t)
         \/ ThreadSetLastReading(t)
         \/ ThreadSetLastUpdate(t)
         \/ ThreadLoadTotal(t)
         \/ ThreadStoreTotal(t)
         \/ ThreadReturn(t)
    \/ StatusCountActive
    \/ StatusReadTotal
    \/ StatusReadLast

SpecConc == ConcInit /\ [][ConcNext]_vars

\* ================================================================ claims
\* a step that completes one ingest call
IngestStep == calls' = calls + 1 /\ call'.op = "ingest"

LiveState == <<realtime, file, sensors, total_readings, last_update>>

\* C1: ingest with a sensor id that is no key of the registry fails with
\* Unauthorized for every payload, valid or not, and changes neither the
\* in-memory log, the log file, any sensor's state nor the counters.
C1_UnauthorizedRejected ==
    [][(IngestStep /\ call'.sensor_id \notin DOMAIN sensors)
         => (/\ call'.outcome = "Unauthorized"
             /\ call'.ret = None
             /\ UNCHANGED LiveState)]_vars

\* an unregistered sensor sent a payload the validator rejects
C1_Witness ==
    /\ call.op = "ingest"
    /\ call.sensor_id \notin DOMAIN sensors
    /\ ~validate_readings(call.readings).ok
    /\ call.outcome = "Unauthorized"

\* C2: ingest of a registered sensor with a payload the validator rejects
\* fails with InvalidReading carrying the validator's ordered error list and
\* changes neither the log, the file, any sensor's state nor the counters.
C2_InvalidRejected ==
    [][(/\ IngestStep
        /\ call'.sensor_id \in DOMAIN sensors
        /\ ~validate_readings(call'.readings).ok)
         => (/\ call'.outcome = "InvalidReading"
             /\ call'.errors = validate_readings(call'.readings).errors
             /\ call'.ret = None
             /\ UNCHANGED LiveState)]_vars

\* a registered sensor sent a payload that breaks two rules at once
C2_Witness ==
    /\ call.op = "ingest"
    /\ call.sensor_id \in DOMAIN sensors
    /\ call.outcome = "InvalidReading"
    /\ Len(call.errors) = 2

\* C3: when the rewrite of the log file fails, the call fails and nothing of
\* the ingest is committed: log, sensor state and counters are as before.
C3_WriteFailureCommitsNothing ==
    [][(IngestStep /\ call'.wr \in {"fail_untouched", "fail_truncated"})
         => (/\ call'.outcome # "ok"
             /\ UNCHANGED <<realtime, sensors, total_readings, last_update>>)]_vars

\* C5: right after every successful ingest of a sequential run the file holds
\* the complete in-memory log: same records, same order, each with its
\* sensor id, readings and ISO timestamp.
C5_FileIsLogAfterSuccess ==
    (call.op = "ingest" /\ call.outcome = "ok")
        => /\ file.state = "ok"
           /\ Len(file.text) = Len(realtime)
           /\ \A i \in 1..Len(realtime) :
                /\ json_loads(file.text)[i] = realtime[i]
                /\ IsIsoString(realtime[i].timestamp)

\* a successful ingest after an ingest whose write failed
C5_Witness ==
    /\ call.op = "ingest"
    /\ call.outcome = "ok"
    /\ Len(realtime) = 2
    /\ total_readings = 1

\* C6: a successful ingest returns a reading with the given sensor id and
\* readings, appends exactly one record for it at the end of the log, sets
\* the sensor's last_reading/last_update and the process-wide last_update to
\* it, adds 1 to total_readings and touches no other sensor.
C6_SuccessfulIngestEffect ==
    [][(IngestStep /\ call'.outcome = "ok")
         => (/\ Len(call'.ret) = 1
             /\ LET reading == call'.ret[1]
                    sid == call'.sensor_id
                IN /\ reading.sensor_id = sid
                   /\ reading.readings = call'.readings
                   /\ Len(realtime') = Len(realtime) + 1
                   /\ SubSeq(realtime', 1, Len(realtime)) = realtime
                   /\ realtime'[Len(realtime')].sensor_id = sid
                   /\ realtime'[Len(realtime')].readings = call'.readings
                   /\ realtime'[Len(realtime')].timestamp
                          = isoformat(reading.timestamp)
                   /\ sensors'[sid].last_reading = Some(reading)
                   /\ sensors'[sid].last_update = Some(reading.timestamp)
                   /\ total_readings' = total_readings + 1
                   /\ last_update' = Some(reading.timestamp)
                   /\ DOMAIN sensors' = DOMAIN sensors
                   /\ \A o \in DOMAIN sensors \ {sid} : sensors'[o] = sensors[o])]_vars

\* a second successful ingest, for another sensor than the first
C6_Witness ==
    /\ call.op = "ingest"
    /\ call.outcome = "ok"
    /\ total_readings = 2
    /\ \E o \in DOMAIN sensors \ {call.sensor_id} : sensors[o].last_reading # None

\* C8: the active-sensor count never decreases; a successful ingest adds 1
\* when the sensor had no live reading and nothing otherwise; a failed
\* ingest leaves it alone; a last_reading once set is never null again.
C8_ActiveCountMonotone ==
    [][/\ active_sensors(sensors') >= active_sensors(sensors)
       /\ \A sid \in DOMAIN sensors :
            sensors[sid].last_reading # None => sensors'[sid].last_reading # None
       /\ (IngestStep /\ call'.outcome = "ok")
            => active_sensors(sensors')
                 = active_sensors(sensors)
                     + (IF sensors[call'.sensor_id].last_reading = None THEN 1 ELSE 0)
       /\ (IngestStep /\ call'.outcome # "ok")
            => active_sensors(sensors') = active_sensors(sensors)]_vars

\* a successful ingest for a sensor while another sensor is already active
C8_Witness ==
    /\ call.op = "ingest"
    /\ call.outcome = "ok"
    /\ active_sensors(sensors) = 2

\* ------------------------------------------------------ claims on startup
RestoredLog == load_realtime_storage(file)

RecordsOf(log, sid) == {i \in 1..Len(log) : log[i].sensor_id = sid}

\* the first record of sid that carries the greatest timestamp of sid
LatestOf(log, sid) ==
    LET idx == RecordsOf(log, sid)
        top == Max({fromisoformat(log[i].timestamp) : i \in idx})
    IN CHOOSE i \in idx :
         /\ fromisoformat(log[i].timestamp) = top
         /\ \A j \in idx : fromisoformat(log[j].timestamp) = top => i <= j

\* C9: hydration gives every registered sensor with records in the restored
\* log the record with its greatest timestamp, the first such record on a
\* tie, whatever the order of the log; records of unregistered sensors
\* change nothing, and sensors without records have no live reading.
C9_HydrationPicksLatest ==
    pc = "ready"
        => \A sid \in Registered :
             IF RecordsOf(RestoredLog, sid) = {}
             THEN sensors[sid] = SensorInfo
             ELSE LET rec == RestoredLog[LatestOf(RestoredLog, sid)] IN
                  /\ sensors[sid].last_reading
                       = Some(SensorReading(sid, rec.readings,
                                            fromisoformat(rec.timestamp)))
                  /\ sensors[sid].last_update = Some(fromisoformat(rec.timestamp))

\* two records of one registered sensor tie on the timestamp and differ
C9_Witness ==
    /\ pc = "ready"
    /\ \E sid \in Registered :
         \E i, j \in RecordsOf(RestoredLog, sid) :
            /\ i < j
            /\ RestoredLog[i].timestamp = RestoredLog[j].timestamp
            /\ RestoredLog[i].readings # RestoredLog[j].readings

\* the restored log without the records whose timestamp does not parse
WellFormedOnly(log) == SelectSeq(log, LAMBDA rec : IsIsoString(rec.timestamp))

\* C10: a record with a malformed timestamp in the restored log does not
\* make startup fail: it is skipped and the rest is hydrated as if the
\* record were absent.
C10_MalformedRecordSkipped ==
    pc # "boot"
        => /\ pc = "ready"
           /\ sensors = hydrate(load_sensors, WellFormedOnly(RestoredLog), 1)

\* --------------------------------------------- claims on concurrent requests
AllIngestsSucceeded == \A t \in Threads : threads[t].pc = "done" /\ threads[t].outcome = "ok"

\* C4: after N concurrent ingests that all succeed, total_readings has grown
\* by N, the in-memory log holds the N records and the file holds the same
\* records as the in-memory log.
C4_ConcurrentIngestsSerialized ==
    AllIngestsSucceeded
        => /\ total_readings = MaxIngestThreads
           /\ Len(realtime) = MaxIngestThreads
           /\ file.state = "ok"
           /\ json_loads(file.text) = realtime

\* C7: a status query running beside ingests reports a consistent snapshot:
\* no active sensor with totalReadings = 0 or a null lastUpdate, and no more
\* active sensors than counted readings.
C7_StatusIsSnapshot ==
    status_req.pc = "done"
        => /\ status_req.active_sensors <= status_req.total_readings
           /\ status_req.active_sensors > 0
                => (status_req.total_readings > 0 /\ status_req.last_update # None)

\* ------------------------------------------- the Reading Validator alone
\* the manager before startup, for the specifications of the pure functions
NotStarted ==
    /\ pc = "boot"
    /\ file = AbsentFile
    /\ sensors = load_sensors
    /\ realtime = <<>>
    /\ total_readings = 0
    /\ last_update = None
    /\ clock = 0
    /\ calls = 0
    /\ NoRequests

\* payloads for the validator: known keys, keys without an upper bound and
\* an unknown key, with values below 0, in range, in (400, 500] and above 500
ValidatorKeys == {"pm25", "no2", "pm10", "o3", "x"}
ValidatorValues == {-10, 20, 450, 501}
ValidatorInputs == UNION {[ks -> ValidatorValues] : ks \in SUBSET ValidatorKeys}

ValidateInit ==
    /\ NotStarted
    /\ historical_df = EmptyTable
    /\ \E readings \in ValidatorInputs :
         call = [NoCall EXCEPT !.op = "request", !.readings = readings]

\* DataCleaner.validate_readings(readings)
Validate ==
    /\ call.op = "request"
    /\ LET v == validate_readings(call.readings) IN
         call' = [call EXCEPT !.op = "validate_readings",
                              !.outcome = IF v.ok THEN "ok" ELSE "invalid",
                              !.errors = v.errors]
    /\ UNCHANGED <<historical_df, pc, sensors, realtime, file, total_readings,
                   last_update, clock, calls, threads, status_req>>

ValidateNext == Validate

SpecValidate == ValidateInit /\ [][ValidateNext]_vars

\* C11: validate_readings returns one error for the empty mapping; for any
\* other mapping it returns, in this order, the negative-value error when
\* some value (under any key) is below 0, the PM2.5 error when pm25 > 500 and
\* the NO2 error when no2 > 400, all three rules evaluated; it is valid iff
\* the list is empty, and pm10 and o3 have no upper bound.
C11_ValidatorErrors ==
    call.op = "validate_readings"
        => LET r == call.readings
               holds(e) ==
                   \/ e = "Negative pollutant values are not allowed."
                        /\ \E k \in DOMAIN r : r[k] < 0
                   \/ e = "PM2.5 value too large (>500)."
                        /\ "pm25" \in DOMAIN r /\ r["pm25"] > 500
                   \/ e = "NO2 value too large (>400)."
                        /\ "no2" \in DOMAIN r /\ r["no2"] > 400
               expected ==
                   IF DOMAIN r = {}
                   THEN <<"Readings dictionary is empty.">>
                   ELSE SelectSeq(<<"Negative pollutant values are not allowed.",
                                    "PM2.5 value too large (>500).",
                                    "NO2 value too large (>400).">>, holds)
           IN /\ call.errors = expected
              /\ (call.outcome = "ok") <=> (call.errors = <<>>)
              /\ (call.outcome = "invalid") <=> (call.errors # <<>>)

\* a payload that breaks all three rules while pm10 is far above 500
C11_Witness ==
    /\ call.op = "validate_readings"
    /\ Len(call.errors) = 3
    /\ "pm10" \in DOMAIN call.readings
    /\ call.readings["pm10"] > 500

\* ------------------------------------------ DataCleaner.clean_historical
\* timestamp cells: empty (NaN / NaT), a string of the file, or an instant
NullTs == [kind |-> "null", digits |-> <<>>, instant |-> 0]
StrTs(digits) == [kind |-> "str", digits |-> digits, instant |-> 0]
Ts(instant) == [kind |-> "ts", digits |-> <<>>, instant |-> instant]

\* mutant: only strings are parsed, an instant becomes NaT
to_datetime_strings_only(cell) ==
    IF cell.kind = "str" /\ IsIsoString(cell.digits)
    THEN Ts(fromisoformat(cell.digits))
    ELSE NullTs

\* pd.to_datetime(..., errors="coerce") of one cell
to_datetime(cell) ==
    IF cell.kind = "ts" THEN cell
    ELSE IF cell.kind = "str" /\ IsIsoString(cell.digits)
    THEN Ts(fromisoformat(cell.digits))
    ELSE NullTs

\* df[df[col] >= bound]: a comparison with NaN is False
AtLeast(cell, bound) == cell # None /\ cell[1] >= bound

\* df[df[col] <= bound]
AtMost(cell, bound) == cell # None /\ cell[1] <= bound

\* the loop over the pollutant columns: drop what is not >= 0
RECURSIVE drop_negative(_, _, _)
drop_negative(columns, rows, i) ==
    IF i > Len(PollutantColumns) THEN rows
    ELSE LET col == PollutantColumns[i] IN
         drop_negative(columns,
                       IF col \in columns
                       THEN SelectSeq(rows, LAMBDA r : AtLeast(r[col], 0))
                       ELSE rows,
                       i + 1)

clean_historical(df) ==
    LET initial == Len(df.rows)
        d1 == SelectSeq(df.rows,
                        LAMBDA r : r.sensor_id # None /\ r.timestamp.kind # "null")
        d2 == drop_negative(df.columns, d1, 1)
        d3 == IF "pm25" \in df.columns
              THEN SelectSeq(d2, LAMBDA r : AtMost(r.pm25, PM25_MAX))
              ELSE d2
        d4 == IF "no2" \in df.columns
              THEN SelectSeq(d3, LAMBDA r : AtMost(r.no2, NO2_MAX))
              ELSE d3
        d5 == [i \in 1..Len(d4) |->
                  [d4[i] EXCEPT !.timestamp = to_datetime(d4[i].timestamp)]]
        d6 == SelectSeq(d5, LAMBDA r : r.timestamp.kind # "null")
        final == Len(d6)
    IN [df |-> [columns |-> df.columns, rows |-> d6],
        stats |-> [initial_rows |-> initial,
                   final_rows |-> final,
                   dropped_rows |-> initial - final,
                   \* the percentage, in whole percent
                   percent_cleaned |-> IF initial # 0
                                       THEN ((initial - final) * 100) \div initial
                                       ELSE 0]]

\* rows of a historical file: a clean row and the rows that differ from it
\* in one cell
GoodRow ==
    [sensor_id |-> <<"s1">>, timestamp |-> StrTs(isoformat(0)),
     pm25 |-> <<20>>, pm10 |-> <<30>>, no2 |-> <<15>>, o3 |-> <<50>>]

RawRows ==
    {GoodRow}
      \cup {[GoodRow EXCEPT !.sensor_id = v] : v \in {None, <<"s2">>}}
      \cup {[GoodRow EXCEPT !.timestamp = v] :
               v \in {NullTs, StrTs(isoformat(1))}
                       \cup {StrTs(d) : d \in MalformedTimestamps}}
      \cup {[GoodRow EXCEPT !.pm25 = v] : v \in {None, <<-10>>, <<500>>, <<501>>}}
      \cup {[GoodRow EXCEPT !.pm10 = v] : v \in {None, <<-10>>, <<501>>}}
      \cup {[GoodRow EXCEPT !.no2 = v] : v \in {None, <<-10>>, <<400>>, <<401>>}}
      \cup {[GoodRow EXCEPT !.o3 = v] : v \in {None, <<-10>>, <<501>>}}

\* a row of a file that lacks some columns: no cell for them
Project(row, columns) ==
    [f \in DOMAIN row |->
        IF f \in ColumnSet /\ f \notin columns THEN None ELSE row[f]]

RawColumnSets == {ColumnSet, ColumnSet \ {"pm25"}, ColumnSet \ {"no2"}, {}}

RawTables ==
    {[columns |-> cs, rows |-> [i \in 1..Len(rows) |-> Project(rows[i], cs)]] :
        cs \in RawColumnSets, rows \in SeqsUpTo(RawRows, MaxRawRows)}

NoStats == [initial_rows |-> 0, final_rows |-> 0, dropped_rows |-> 0,
            percent_cleaned |-> 0]

CleanInit ==
    /\ NotStarted
    /\ historical_df \in RawTables
    /\ call = [NoCall EXCEPT !.op = "read_csv", !.ret = Some(NoStats)]

\* load_historical_data: the table read from the file is cleaned
LoadHistorical ==
    /\ call.op = "read_csv"
    /\ LET c == clean_historical(historical_df) IN
         /\ historical_df' = c.df
         /\ call' = [call EXCEPT !.op = "clean_historical", !.ret = Some(c.stats)]
    /\ UNCHANGED <<pc, sensors, realtime, file, total_readings, last_update,
                   clock, calls, threads, status_req>>

\* clean_historical applied to the table it returned
CleanAgain ==
    /\ call.op = "clean_historical"
    /\ LET c == clean_historical(historical_df) IN
         /\ historical_df' = c.df
         /\ call' = [call EXCEPT !.op = "clean_again", !.ret = Some(c.stats)]
    /\ UNCHANGED <<pc, sensors, realtime, file, total_readings, last_update,
                   clock, calls, threads, status_req>>

CleanNext == LoadHistorical \/ CleanAgain

SpecClean == CleanInit /\ [][CleanNext]_vars

\* a row the claim keeps: ids present, no present pollutant value negative,
\* pm25 and no2 within their bounds when present, timestamp parseable
KeptByClaim(r) ==
    /\ r.sensor_id # None
    /\ r.timestamp.kind # "null"
    /\ \A c \in ColumnSet : r[c] # None => r[c][1] >= 0
    /\ r.pm25 # None => r.pm25[1] <= 500
    /\ r.no2 # None => r.no2[1] <= 400
    /\ to_datetime(r.timestamp).kind = "ts"

FirstClean == call.op = "read_csv" /\ call'.op = "clean_historical"

\* C12: clean_historical is a pure filter: a row survives iff its ids are
\* non-null, none of its present pollutant values is negative or above the
\* pm25 / no2 bound and its timestamp parses (a null pollutant alone drops
\* nothing); survivors keep order and values, dropped = initial - final and
\* percent_cleaned is 0 for an empty table.
C12_CleanIsFilter ==
    [][FirstClean
         => LET kept == SelectSeq(historical_df.rows, KeptByClaim)
                stats == call'.ret[1]
            IN /\ Len(historical_df'.rows) = Len(kept)
               /\ \A i \in 1..Len(kept) :
                    historical_df'.rows[i]
                      = [kept[i] EXCEPT !.timestamp = to_datetime(@)]
               /\ stats.initial_rows = Len(historical_df.rows)
               /\ stats.final_rows = Len(historical_df'.rows)
               /\ stats.dropped_rows = stats.initial_rows - stats.final_rows
               /\ stats.initial_rows = 0 => stats.percent_cleaned = 0]_vars

SecondClean == call.op = "clean_historical" /\ call'.op = "clean_again"

\* C13: cleaning a cleaned table returns the same rows in the same order and
\* reports dropped_rows = 0 and percent_cleaned = 0.
C13_CleanIdempotent ==
    [][SecondClean
         => /\ historical_df' = historical_df
            /\ call'.ret[1].dropped_rows = 0
            /\ call'.ret[1].percent_cleaned = 0
            /\ call'.ret[1].final_rows = call'.ret[1].initial_rows]_vars

\* a cleaned table of two different rows was cleaned again
C13_Witness ==
    /\ call.op = "clean_again"
    /\ Len(historical_df.rows) = 2
    /\ historical_df.rows[1] # historical_df.rows[2]
    /\ call.ret[1].initial_rows = 2


\* ------------------------------------------------ the queries of the manager
\* sensors.json metadata: s1 names a province, s2 does not
metadata ==
    [s1 |-> [province |-> "north", region |-> "r1"], s2 |-> [region |-> "r2"]]

\* config["thresholds"], ascending
thresholds == [pm25_safe |-> 12, pm25_moderate |-> 35, pm25_danger |-> 55]

\* dict.get(key): the value or None
dict_get(d, key) == IF key \in DOMAIN d THEN Some(d[key]) ELSE None

\* dict.get(key, default)
dict_get_default(d, key, default) == IF key \in DOMAIN d THEN d[key] ELSE default

\* .dt.year and .dt.month of an instant: one tick of the clock is one month
dt_year(instant) == 2024 + (instant \div 12)
dt_month(instant) == (instant % 12) + 1

\* the manager a query reads
QuerySelf ==
    [sensors |-> sensors, realtime |-> realtime, file |-> file,
     total_readings |-> total_readings, last_update |-> last_update,
     historical_df |-> historical_df]

\* get_status; _start_time is tick 0
get_status(self, now) ==
    Return(self, [status |-> "healthy",
                  uptime_seconds |-> now - 0,
                  active_sensors |-> active_sensors(self.sensors),
                  total_readings |-> self.total_readings,
                  last_update |-> self.last_update])

\* df[df["sensor_id"] == sensor_id]
rows_of_sensor(df, sensor_id) ==
    SelectSeq(df.rows, LAMBDA r : r.sensor_id = Some(sensor_id))

\* mutant: the first row of the sorted table, iloc[0]
sorted_last_iloc_first(hist) ==
    {hist[i] : i \in {j \in 1..Len(hist) :
        \A k \in 1..Len(hist) : hist[j].timestamp.instant <= hist[k].timestamp.instant}}

\* hist.sort_values("timestamp").iloc[-1]: the sort is not stable, so any row
\* of the greatest timestamp can come last
sorted_last(hist) ==
    {hist[i] : i \in {j \in 1..Len(hist) :
        \A k \in 1..Len(hist) : hist[k].timestamp.instant <= hist[j].timestamp.instant}}

\* the rows iloc[-1] can return for each sensor without a live reading;
\* None when the sensor has no historical row
latest_rows(self) ==
    {f \in [DOMAIN self.sensors ->
               {None} \cup {Some(r) : r \in {self.historical_df.rows[i] :
                                         i \in 1..Len(self.historical_df.rows)}}] :
        \A sid \in DOMAIN self.sensors :
            LET hist == rows_of_sensor(self.historical_df, sid) IN
            IF Len(hist) = 0 THEN f[sid] = None
            ELSE f[sid] # None /\ f[sid][1] \in sorted_last(hist)}

\* one row of the map: the loop body of get_map_dataframe
map_row(self, sensor_id, latest) ==
    LET sensor == self.sensors[sensor_id]
        province == dict_get(metadata[sensor_id], "province")
    IN IF sensor.last_reading # None
       THEN LET reading == sensor.last_reading[1] IN
            [sensor_id |-> sensor_id,
             pm25 |-> dict_get(reading.readings, "pm25"),
             pm10 |-> dict_get(reading.readings, "pm10"),
             no2 |-> dict_get(reading.readings, "no2"),
             o3 |-> dict_get(reading.readings, "o3"),
             last_update |-> Some(reading.timestamp),
             province |-> province]
       ELSE IF latest = None
       THEN [sensor_id |-> sensor_id, pm25 |-> None, pm10 |-> None,
             no2 |-> None, o3 |-> None, last_update |-> None,
             province |-> province]
       ELSE \* a cell that is NaN, or whose column is missing, is None
            [sensor_id |-> sensor_id,
             pm25 |-> latest[1].pm25,
             pm10 |-> latest[1].pm10,
             no2 |-> latest[1].no2,
             o3 |-> latest[1].o3,
             last_update |-> Some(latest[1].timestamp.instant),
             province |-> province]

\* latest[sid] is the row iloc[-1] returned for sensor sid
get_map_dataframe(self, latest) ==
    Return(self, [i \in 1..Len(RegistryOrder) |->
                     map_row(self, RegistryOrder[i], latest[RegistryOrder[i]])])

\* the results sort_values("timestamp") can give: the rows in an order of
\* ascending timestamps, rows of equal timestamp in any order
sort_values(hist) ==
    {[i \in 1..Len(hist) |-> hist[p[i]]] :
        p \in {q \in [1..Len(hist) -> 1..Len(hist)] :
                 /\ \A i, j \in 1..Len(hist) : i # j => q[i] # q[j]
                 /\ \A i, j \in 1..Len(hist) :
                      i < j => hist[q[i]].timestamp.instant
                                 <= hist[q[j]].timestamp.instant}}

\* mutant: the historical table itself is filtered and sorted
get_sensor_history_in_place(self, sensor_id, sorted) ==
    IF sensor_id \notin DOMAIN self.sensors
    THEN Raise(self, "KeyError", <<sensor_id>>)
    ELSE IF Len(sorted) = 0
    THEN Raise(self, "KeyError", <<sensor_id>>)
    ELSE Return([self EXCEPT !.historical_df.rows = sorted], sorted)

\* sorted is the result of the filter and the sort
get_sensor_history(self, sensor_id, sorted) ==
    IF sensor_id \notin DOMAIN self.sensors
    THEN Raise(self, "KeyError", <<sensor_id>>)
    ELSE IF Len(sorted) = 0
    THEN Raise(self, "KeyError", <<sensor_id>>)
    ELSE Return(self, sorted)

categorize(pm25) ==
    IF pm25 = None THEN "No data"
    ELSE IF pm25[1] <= thresholds.pm25_safe THEN "Safe"
    ELSE IF pm25[1] <= thresholds.pm25_moderate THEN "Moderate"
    ELSE IF pm25[1] <= thresholds.pm25_danger THEN "Unhealthy"
    ELSE "Dangerous"

\* sensor_id.map(province_map).fillna("Unknown")
province_of(self, row) ==
    IF row.sensor_id[1] \in DOMAIN self.sensors
    THEN dict_get_default(metadata[row.sensor_id[1]], "province", "Unknown")
    ELSE "Unknown"

\* transform("sum") of the count column over a group of result rows
RECURSIVE sum_count(_)
sum_count(group) ==
    IF group = {} THEN 0
    ELSE LET c == CHOOSE c \in group : TRUE
         IN c.count + sum_count(group \ {c})

\* the result is the set of its rows; a percentage count / total * 100 is the
\* fraction <<count * 100, total>>
get_distribution_dataframe(self, year, month) ==
    IF ~(1 <= month /\ month <= 12)
    THEN Raise(self, "ValueError", <<"Invalid month">>)
    ELSE LET df == self.historical_df
             sub == SelectSeq(df.rows,
                       LAMBDA r : /\ dt_year(r.timestamp.instant) = year
                                  /\ dt_month(r.timestamp.instant) = month)
         IN IF Len(sub) = 0
            THEN Raise(self, "KeyError", <<"No data">>)
            ELSE IF "pm25" \notin df.columns
            \* sub["pm25"] of a table without that column
            THEN Raise(self, "KeyError", <<"pm25">>)
            ELSE LET key(r) == <<province_of(self, r), categorize(r.pm25)>>
                     size(k) == Cardinality({i \in 1..Len(sub) : key(sub[i]) = k})
                     counts == {[province |-> k[1], category |-> k[2],
                                 count |-> size(k)] :
                                   k \in {key(sub[i]) : i \in 1..Len(sub)}}
                     total_per_province(c) ==
                         sum_count({d \in counts : d.province = c.province})
                 IN Return(self,
                           {[province |-> c.province, category |-> c.category,
                             count |-> c.count,
                             percentage |-> <<c.count * 100, total_per_province(c)>>] :
                               c \in counts})


\* ------------------------------------------- ingests and queries, one at a time
\* a historical file: two rows of s1 at the same instant, a later one, one
\* of s2, and one of a sensor that is not registered in the same month of
\* the next year; the pm25 values cover the categories
HistFile ==
    <<[GoodRow EXCEPT !.pm25 = <<10>>],
      [GoodRow EXCEPT !.pm25 = <<100>>],
      [GoodRow EXCEPT !.pm25 = <<30>>, !.timestamp = StrTs(isoformat(1))],
      [GoodRow EXCEPT !.pm25 = <<50>>, !.sensor_id = <<"s2">>],
      [GoodRow EXCEPT !.pm25 = <<10>>, !.sensor_id = <<"u1">>,
                      !.timestamp = StrTs(isoformat(12))]>>

\* the rows of s at the indices of I, in the order of s
RECURSIVE SubSeq_at(_, _, _)
SubSeq_at(s, I, i) ==
    IF i > Len(s) THEN <<>>
    ELSE (IF i \in I THEN <<s[i]>> ELSE <<>>) \o SubSeq_at(s, I, i + 1)

\* the tables load_historical_data returns for the files that hold up to
\* MaxHistRows rows of HistFile, with and without a pm25 column
HistTables ==
    {clean_historical(
        [columns |-> cs,
         rows |-> [i \in 1..Len(rows) |-> Project(rows[i], cs)]]).df :
        cs \in {ColumnSet, ColumnSet \ {"pm25"}},
        rows \in {SubSeq_at(HistFile, I, 1) :
                    I \in {J \in SUBSET (1..Len(HistFile)) :
                              Cardinality(J) <= MaxHistRows}}}

QueryReadings == {[pm25 |-> 20], [no2 |-> 20]}

\* the write of the log succeeds or fails before the file is touched
QueryWriteOutcomes == {"ok", "fail_untouched"}

QueryYears == {2024, 2025}
QueryMonths == {1, 2, 13}

\* the service after startup without a realtime log file
QueryInit ==
    /\ pc = "ready"
    /\ file = AbsentFile
    /\ LET m == SensorManager(load_sensors, file) IN
         /\ sensors = m.sensors
         /\ realtime = m.realtime
         /\ total_readings = m.total_readings
         /\ last_update = m.last_update
    /\ clock = 0
    /\ call = NoCall
    /\ calls = 0
    /\ NoRequests
    /\ historical_df \in HistTables

\* POST /ingest
QueryIngest ==
    /\ pc = "ready"
    /\ calls < MaxQueryIngests
    /\ \E sensor_id \in SensorIds, readings \in QueryReadings,
          now \in clock..MaxClock, wr \in QueryWriteOutcomes :
         LET res == ingest(Self, sensor_id, readings, now, wr) IN
           /\ sensors' = res.self.sensors
           /\ realtime' = res.self.realtime
           /\ file' = res.self.file
           /\ total_readings' = res.self.total_readings
           /\ last_update' = res.self.last_update
           /\ clock' = IF res.outcome \in {"Unauthorized", "InvalidReading"}
                       THEN clock ELSE now
           /\ call' = [op |-> "ingest", sensor_id |-> sensor_id,
                       readings |-> readings,
                       wr |-> IF res.outcome \in {"Unauthorized", "InvalidReading"}
                              THEN "none" ELSE wr,
                       outcome |-> res.outcome, errors |-> res.errors,
                       ret |-> res.ret]
    /\ calls' = calls + 1
    /\ UNCHANGED <<historical_df, pc, threads, status_req>>

\* what a query leaves of the manager, and its result
Answer(res, op, sensor_id, year, month) ==
    /\ sensors' = res.self.sensors
    /\ realtime' = res.self.realtime
    /\ file' = res.self.file
    /\ total_readings' = res.self.total_readings
    /\ last_update' = res.self.last_update
    /\ historical_df' = res.self.historical_df
    /\ call' = [op |-> op, sensor_id |-> sensor_id, readings |-> <<>>,
                wr |-> "none", outcome |-> res.outcome, errors |-> res.errors,
                ret |-> res.ret, year |-> year, month |-> month]
    /\ UNCHANGED <<pc, calls, threads, status_req>>

\* GET /status; the wall clock is read for the uptime, the clock of the
\* ingests stays where it is
GetStatus ==
    /\ pc = "ready"
    /\ \E now \in clock..MaxClock :
         Answer(get_status(QuerySelf, now), "status", "", 0, 0)
    /\ UNCHANGED clock

\* GET /map
GetMap ==
    /\ pc = "ready"
    /\ \E latest \in latest_rows(QuerySelf) :
         Answer(get_map_dataframe(QuerySelf, latest), "map", "", 0, 0)
    /\ UNCHANGED clock

\* GET /history/{sensor_id}
GetHistory ==
    /\ pc = "ready"
    /\ \E sensor_id \in SensorIds :
         \E sorted \in sort_values(rows_of_sensor(historical_df, sensor_id)) :
           Answer(get_sensor_history(QuerySelf, sensor_id, sorted),
                  "history", sensor_id, 0, 0)
    /\ UNCHANGED clock

\* GET /distribution/{year}/{month}
GetDistribution ==
    /\ pc = "ready"
    /\ \E year \in QueryYears, month \in QueryMonths :
         Answer(get_distribution_dataframe(QuerySelf, year, month),
                "distribution", "", year, month)
    /\ UNCHANGED clock

QueryNext ==
    \/ QueryIngest
    \/ GetStatus
    \/ GetMap
    \/ GetHistory
    \/ GetDistribution

SpecQuery == QueryInit /\ [][QueryNext]_vars

QueryOps == {"status", "map", "history", "distribution"}

\* C14: after any ingests the map has one row per registered sensor in
\* registry order; a sensor with a live reading shows that reading's
\* pollutants (None for one it lacks) and timestamp; a sensor without one
\* shows the values and timestamp of a historical row of that sensor with
\* the maximum timestamp, or all None when it has no historical row
C14_MapSnapshot ==
    call.op = "map" =>
        /\ call.outcome = "ok"
        /\ LET rows == call.ret[1]
               hdf == historical_df.rows
           IN /\ Len(rows) = Len(RegistryOrder)
              /\ \A i \in 1..Len(RegistryOrder) :
                   LET sid == RegistryOrder[i]
                       live == sensors[sid].last_reading
                       H == {j \in 1..Len(hdf) : hdf[j].sensor_id = <<sid>>}
                   IN /\ rows[i].sensor_id = sid
                      /\ IF live # None
                         THEN /\ \A k \in ColumnSet :
                                   rows[i][k] =
                                     IF k \in DOMAIN live[1].readings
                                     THEN <<live[1].readings[k]>> ELSE <<>>
                              /\ rows[i].last_update = <<live[1].timestamp>>
                         ELSE IF H = {}
                         THEN /\ \A k \in ColumnSet : rows[i][k] = <<>>
                              /\ rows[i].last_update = <<>>
                         ELSE \E j \in H :
                                /\ \A h \in H : hdf[h].timestamp.instant
                                                  <= hdf[j].timestamp.instant
                                /\ \A k \in ColumnSet : rows[i][k] = hdf[j][k]
                                /\ rows[i].last_update = <<hdf[j].timestamp.instant>>

\* the map was taken while s1 had a live reading without pm25 and a
\* historical row with pm25, and s2 had only a historical row
C14_Witness ==
    /\ call.op = "map"
    /\ sensors["s1"].last_reading # None
    /\ "pm25" \notin DOMAIN sensors["s1"].last_reading[1].readings
    /\ \E j \in 1..Len(historical_df.rows) :
         historical_df.rows[j].sensor_id = <<"s1">> /\ historical_df.rows[j].pm25 # <<>>
    /\ sensors["s2"].last_reading = None
    /\ \E j \in 1..Len(historical_df.rows) : historical_df.rows[j].sensor_id = <<"s2">>

\* the historical rows of the month the last distribution query asked for
MonthRows ==
    {i \in 1..Len(historical_df.rows) :
        /\ dt_year(historical_df.rows[i].timestamp.instant) = call.year
        /\ dt_month(historical_df.rows[i].timestamp.instant) = call.month}

\* the province a historical row is counted under
ProvinceByClaim(i) ==
    LET sid == historical_df.rows[i].sensor_id[1] IN
    IF sid \in Registered /\ "province" \in DOMAIN metadata[sid]
    THEN metadata[sid].province ELSE "Unknown"

RECURSIVE sum_numerators(_)
sum_numerators(group) ==
    IF group = {} THEN 0
    ELSE LET c == CHOOSE c \in group : TRUE
         IN c.percentage[1] + sum_numerators(group \ {c})

\* C15: for a month in 1..12 with at least one historical row the
\* distribution returns each observed (province, category) pair exactly once;
\* the counts of a province sum to the number of the month's rows mapped to
\* it (unknown sensors and sensors without a province under "Unknown"), its
\* percentages sum to 100, and every row is counted in exactly one category
C15_DistributionCounts ==
    (call.op = "distribution" /\ call.month \in 1..12 /\ MonthRows # {}) =>
        /\ call.outcome = "ok"
        /\ LET result == call.ret[1]
               cat(i) == categorize(historical_df.rows[i].pm25)
           IN /\ \A i \in MonthRows :
                    Cardinality({c \in result : /\ c.province = ProvinceByClaim(i)
                                                 /\ c.category = cat(i)}) = 1
              /\ \A c \in result :
                    LET group == {d \in result : d.province = c.province}
                        n == Cardinality({i \in MonthRows :
                                             ProvinceByClaim(i) = c.province})
                    IN /\ c.count = Cardinality({i \in MonthRows :
                                        /\ ProvinceByClaim(i) = c.province
                                        /\ cat(i) = c.category})
                       /\ c.count > 0
                       /\ sum_count(group) = n
                       /\ \A d \in group : d.percentage[2] = n
                       /\ sum_numerators(group) = 100 * n

QueryStep == calls' = calls /\ call'.op \in QueryOps

\* C16: a query, whether it succeeds or fails, leaves the registry, the
\* realtime log in memory and on disk, total_readings, last_update and the
\* historical table unchanged
C16_QueriesReadOnly ==
    [][QueryStep => UNCHANGED <<sensors, realtime, file, total_readings,
                                last_update, historical_df>>]_vars

\* after a stored reading, a history query for a sensor without historical
\* rows failed while the table held rows of other sensors
C16_Witness ==
    /\ call.op = "history"
    /\ call.outcome = "KeyError"
    /\ call.sensor_id \in Registered
    /\ total_readings = 1
    /\ Len(historical_df.rows) > 0

\* the manager a restart builds from the realtime log file as it is now
Restarted == SensorManager(load_sensors, file)

\* C17: after any ingests made one after another, a manager constructed
\* from the log file has the live state of the running one: every sensor's
\* last_reading and last_update, total_readings and last_update
C17_RestartRoundTrip ==
    (pc = "ready" /\ calls > 0) =>
        /\ ~Restarted.raised
        /\ Restarted.sensors = sensors
        /\ Restarted.total_readings = total_readings
        /\ Restarted.last_update = last_update
====
